---- MODULE Spec2Model ----
(***************************************************************************)
(* A model of the LangGraph demonstration scripts:                         *)
(*   - CreateJiraTicketAgent.py: the conversation loop                     *)
(*       our_agent (model_call) -> tools (ToolNode) -> should_continue     *)
(*   - nodes.py: MyNodeAdapter.invoke, the validated, sandboxed, retried   *)
(*       call of data_extractor_tool                                       *)
(* Text is modelled as TLA+ strings, so that lower(), strip() and the      *)
(* substring test "x in s" are computed character by character.            *)
(***************************************************************************)
EXTENDS Integers, Sequences, FiniteSets, TLC

\* ------------------------------------------------------------------ bounds
\* Model calls (turns) in one run of the conversation loop.
MaxTurns == 2
\* Tool requests a single model response may carry.
MaxCalls == 2
\* Largest max_retries value given in an input of MyNodeAdapter.invoke.
MaxBudget == 3

VARIABLES
    \* --- CreateJiraTicketAgent.py
    messages,            \* AgentState["messages"], the conversation history
    node,                \* the graph's position: the node or edge that runs next
    issue_info,          \* the module-level draft the update tool overwrites
    nextId,              \* source of fresh message ids and tool-call ids
    tool_runs,           \* what each tool call of the latest tools step did
    turns,               \* model calls made so far in this run
    handle_tool_errors,  \* ToolNode's policy for a tool that raises
    \* --- nodes.py
    input,               \* the raw argument dict given to invoke
    epc,                 \* the position of MyNodeAdapter.invoke
    parsed_input,        \* NodeInput(**input) once validated
    retries,             \* the local variable retries
    partials,            \* the local list partials
    worker,              \* the sandbox's worker thread: none, running, done
    workerResult,        \* what the operation run by the worker ended with
    pending,             \* what sandbox_execute is about to hand to invoke
    attempts,            \* calls of the operation started so far
    outcomes,            \* per attempt: the remote's answer, what invoke saw
    backoffs,            \* time.sleep(1) waits made by error_handler
    lastError,           \* the exception e bound by the latest except clause
    result,              \* what invoke returned or raised
    \* --- runtime.py
    rstate,              \* the graph state: input, output, node_metadata, error
    rnode,               \* the graph's position: the node or edge that runs next
    executed             \* the nodes run so far, in order

agentVars == <<messages, node, issue_info, nextId, tool_runs, turns,
               handle_tool_errors>>
execVars == <<input, epc, parsed_input, retries, partials, worker, workerResult,
              pending, attempts, outcomes, backoffs, lastError, result>>
runtimeVars == <<rstate, rnode, executed>>
vars == <<agentVars, execVars, runtimeVars>>

\* Python's None.
None == [t |-> "None"]

\* The graph of runtime.py before build_graph: nothing has run.
RuntimeIdle ==
    /\ rstate = [input |-> None, output |-> None, node_metadata |-> None,
                 error |-> None]
    /\ rnode = "idle"
    /\ executed = <<>>

\* ------------------------------------------------------------------ text
UpperLetters == "ABCDEFGHIJKLMNOPQRSTUVWXYZ"
LowerLetters == "abcdefghijklmnopqrstuvwxyz"

\* The lower-case letter of every upper-case letter.
LowerOf ==
    [c \in {SubSeq(UpperLetters, i, i) : i \in 1..26} |->
        LET i == CHOOSE j \in 1..26 : SubSeq(UpperLetters, j, j) = c
        IN SubSeq(LowerLetters, i, i)]

\* str.lower() on one character.
LowerChar(c) == IF c \in DOMAIN LowerOf THEN LowerOf[c] ELSE c

RECURSIVE lower(_)
\* str.lower()
lower(s) ==
    IF Len(s) = 0 THEN ""
    ELSE LowerChar(SubSeq(s, 1, 1)) \o lower(SubSeq(s, 2, Len(s)))

\* Python's "sub in s" on strings.
Contains(s, sub) ==
    \E i \in 1..(Len(s) - Len(sub) + 1) : SubSeq(s, i, i + Len(sub) - 1) = sub

Last(s) == s[Len(s)]

\* ------------------------------------------- CreateJiraTicketAgent.py: data
HumanMessage(id, content) ==
    [id |-> id, type |-> "human", content |-> content,
     tool_calls |-> <<>>, tool_call_id |-> 0]

AIMessage(id, content, tool_calls) ==
    [id |-> id, type |-> "ai", content |-> content,
     tool_calls |-> tool_calls, tool_call_id |-> 0]

ToolMessage(id, content, tool_call_id) ==
    [id |-> id, type |-> "tool", content |-> content,
     tool_calls |-> <<>>, tool_call_id |-> tool_call_id]

\* The fixed first user message of model_call, and what input() may return.
Greeting == "How can i help you? "
UserInputs == {"Yes, go ahead"}
\* The text of a model response.
AIContents == {"Sure."}

\* The tool requests the model may issue (name and arguments).
UpdateContents == {"Fix login", "Please CREATE it"}
ToolRequests ==
    [name : {"update"}, args : [content : UpdateContents]]
    \cup [name : {"create_jira_ticket"},
          args : [project_key : {"LEARNJIRA"}, summary : {"Testing"},
                  jira_server : {"https://j.example"}]]

\* What the remote issue tracker does for one create_jira_ticket call.
JiraOutcomes == {"created", "connect_error", "create_error"}
ConnectErrorText == "JiraError HTTP 401"
CreateErrorText == "JiraError HTTP 400"
NewIssueKey == "LEARNJIRA-1"

\* A reducer that only concatenates (operator.add instead of add_messages).
add_messages_concat(left, right) == left \o right

RECURSIVE add_messages_from(_, _, _)
add_messages_from(left, right, k) ==
    IF k > Len(right) THEN left
    ELSE LET m == right[k]
         IN IF \E i \in 1..Len(left) : left[i].id = m.id
            THEN add_messages_from(
                     [i \in 1..Len(left) |-> IF left[i].id = m.id THEN m ELSE left[i]],
                     right, k + 1)
            ELSE add_messages_from(Append(left, m), right, k + 1)

\* The reducer of AgentState["messages"]: a message of right whose id is
\* already in left replaces that message in place, any other is appended.
add_messages(left, right) == add_messages_from(left, right, 1)

\* ------------------------------------------ CreateJiraTicketAgent.py: tools
\* update(content): the returned text (the draft is set by the tools step).
update(content) ==
    "The issue has been updated! The current issue is: \n" \o content

\* A create_jira_ticket whose failure text is worded differently.
create_jira_ticket_reworded(args, outcome) ==
    IF outcome = "connect_error"
    THEN [raised |-> TRUE, text |-> ConnectErrorText]
    ELSE IF outcome = "created"
    THEN [raised |-> FALSE,
          text |-> "Issue created: " \o args.jira_server \o "/browse/" \o NewIssueKey]
    ELSE [raised |-> FALSE,
          text |-> "Ticket creation failed: " \o CreateErrorText]

\* create_jira_ticket: JIRA(...) is built outside the try block, so its
\* exception leaves the tool; create_issue's exception is turned into text.
create_jira_ticket(args, outcome) ==
    IF outcome = "connect_error"
    THEN [raised |-> TRUE, text |-> ConnectErrorText]
    ELSE IF outcome = "created"
    THEN [raised |-> FALSE,
          text |-> "Issue created: " \o args.jira_server \o "/browse/" \o NewIssueKey]
    ELSE [raised |-> FALSE,
          text |-> "Failed to create issue: " \o CreateErrorText]

\* tools = [update, create_jira_ticket]: one tool request run by name.
RunTool(call, outcome) ==
    IF call.name = "update"
    THEN [raised |-> FALSE, text |-> update(call.args.content)]
    ELSE create_jira_ticket(call.args, outcome)

\* A ToolNode that hands back the results in the reverse of request order.
ToolNodeReversed(msgs, outs, firstId) ==
    LET calls == Last(msgs).tool_calls
        n == Len(calls)
    IN [k \in 1..n |->
            LET r == RunTool(calls[n + 1 - k], outs[n + 1 - k])
            IN ToolMessage(firstId + k - 1,
                           IF r.raised
                           THEN "Error: " \o r.text \o "\n Please fix your mistakes."
                           ELSE r.text,
                           calls[n + 1 - k].id)]

\* ToolNode(tools) on the last message: one ToolMessage per tool request, in
\* request order; a raised exception, when handled, becomes an error message.
ToolNode(msgs, outs, firstId) ==
    LET calls == Last(msgs).tool_calls
    IN [k \in 1..Len(calls) |->
            LET r == RunTool(calls[k], outs[k])
            IN ToolMessage(firstId + k - 1,
                           IF r.raised
                           THEN "Error: " \o r.text \o "\n Please fix your mistakes."
                           ELSE r.text,
                           calls[k].id)]

\* ------------------------------------------ CreateJiraTicketAgent.py: nodes
\* model_call's return value: the whole history plus the two new messages.
model_call(msgs, user_message, response) ==
    msgs \o <<user_message, response>>

RECURSIVE scan_reversed_case_sensitive(_, _)
\* The scan without .lower(): the keywords are matched case-sensitively.
scan_reversed_case_sensitive(msgs, i) ==
    IF i = 0 THEN "continue"
    ELSE IF /\ msgs[i].type = "tool"
            /\ Contains(msgs[i].content, "create")
            /\ Contains(msgs[i].content, "issue")
         THEN "end"
         ELSE scan_reversed_case_sensitive(msgs, i - 1)

RECURSIVE scan_reversed(_, _)
scan_reversed(msgs, i) ==
    IF i = 0 THEN "continue"
    ELSE IF /\ msgs[i].type = "tool"
            /\ Contains(lower(msgs[i].content), "create")
            /\ Contains(lower(msgs[i].content), "issue")
         THEN "end"
         ELSE scan_reversed(msgs, i - 1)

RECURSIVE scan_newest_tool_only(_, _)
\* A scan that stops at the newest ToolMessage, whether it matches or not.
scan_newest_tool_only(msgs, i) ==
    IF i = 0 THEN "continue"
    ELSE IF msgs[i].type = "tool"
         THEN IF /\ Contains(lower(msgs[i].content), "create")
                 /\ Contains(lower(msgs[i].content), "issue")
              THEN "end" ELSE "continue"
         ELSE scan_newest_tool_only(msgs, i - 1)

\* A should_continue that looks at the most recent ToolMessage only.
should_continue_newest_only(msgs) ==
    IF Len(msgs) = 0 THEN "continue" ELSE scan_newest_tool_only(msgs, Len(msgs))

\* A should_continue that also ends when the newest message is no tool
\* result (a "final answer" policy).
should_continue_final_answer(msgs) ==
    IF Len(msgs) = 0 THEN "continue"
    ELSE IF Last(msgs).type # "tool" THEN "end"
    ELSE scan_reversed(msgs, Len(msgs))

\* should_continue: "end" as soon as the scan from the newest message finds a
\* ToolMessage whose lowered content holds both keywords.
should_continue(msgs) ==
    IF Len(msgs) = 0 THEN "continue" ELSE scan_reversed(msgs, Len(msgs))

\* Sequences of at most n elements of S.
SeqsUpTo(S, n) == UNION {[1..k -> S] : k \in 0..n}

\* Executor variables at rest, while the conversation loop is checked.
AdapterIdle ==
    /\ input = [kind |-> "none"]
    /\ epc = "idle"
    /\ parsed_input = [query |-> "", api_url |-> "", max_retries |-> 0]
    /\ retries = 0
    /\ partials = <<>>
    /\ worker = "none"
    /\ workerResult = [kind |-> "none", remote |-> "none"]
    /\ pending = [kind |-> "none"]
    /\ attempts = 0
    /\ outcomes = <<>>
    /\ backoffs = 0
    /\ lastError = [kind |-> "none"]
    /\ result = [kind |-> "none"]

\* run_agent: state = {"messages": []}, entry point our_agent.
AgentInit ==
    /\ messages = <<>>
    /\ node = "our_agent"
    /\ issue_info = ""
    /\ nextId = 1
    /\ tool_runs = <<>>
    /\ turns = 0
    /\ handle_tool_errors \in BOOLEAN
    /\ AdapterIdle
    /\ RuntimeIdle

\* Node our_agent: model_call asks the user (or greets), calls the model and
\* returns the history extended by the user message and the response.
ModelCall ==
    /\ node = "our_agent"
    /\ turns < MaxTurns
    /\ \E user_input \in (IF Len(messages) = 0 THEN {Greeting} ELSE UserInputs),
          content \in AIContents,
          reqs \in SeqsUpTo(ToolRequests, MaxCalls) :
          LET user_message == HumanMessage(nextId, user_input)
              tool_calls == [k \in 1..Len(reqs) |->
                                [name |-> reqs[k].name, args |-> reqs[k].args,
                                 id |-> nextId + 1 + k]]
              response == AIMessage(nextId + 1, content, tool_calls)
          IN /\ messages' = add_messages(messages,
                                model_call(messages, user_message, response))
             /\ nextId' = nextId + 2 + Len(reqs)
    /\ turns' = turns + 1
    /\ node' = "tools"
    /\ UNCHANGED <<issue_info, tool_runs, handle_tool_errors, execVars, runtimeVars>>

\* A failed model call after which the loop calls the model again.
ModelCallFailsRetried ==
    /\ node = "our_agent"
    /\ turns < MaxTurns
    /\ turns' = turns + 1
    /\ node' = "our_agent"
    /\ UNCHANGED <<messages, issue_info, nextId, tool_runs, handle_tool_errors,
                   execVars, runtimeVars>>

\* Node our_agent when model.invoke raises: the run ends with that exception.
ModelCallFails ==
    /\ node = "our_agent"
    /\ turns < MaxTurns
    /\ turns' = turns + 1
    /\ node' = "failed"
    /\ UNCHANGED <<messages, issue_info, nextId, tool_runs, handle_tool_errors,
                   execVars, runtimeVars>>

\* The drafts the update calls of one turn can leave in issue_info (the
\* tool requests of a turn run on a thread pool, so the last writer varies).
DraftsAfter(calls) ==
    IF \E k \in 1..Len(calls) : calls[k].name = "update"
    THEN {calls[k].args.content : k \in {j \in 1..Len(calls) : calls[j].name = "update"}}
    ELSE {issue_info}

\* Per tool request of a turn, what the remote does: one of JiraOutcomes for
\* create_jira_ticket, nothing remote ("local") for update.
RemoteChoices(calls) ==
    {outs \in [1..Len(calls) -> JiraOutcomes \cup {"local"}] :
        \A k \in 1..Len(calls) :
            (outs[k] = "local") <=> (calls[k].name = "update")}

\* Node tools: ToolNode runs every tool request of the last message.
Tools ==
    /\ node = "tools"
    /\ LET calls == Last(messages).tool_calls
       IN \E outs \in RemoteChoices(calls) :
            /\ tool_runs' = [k \in 1..Len(calls) |->
                                [name |-> calls[k].name,
                                 outcome |-> outs[k],
                                 run |-> RunTool(calls[k], outs[k])]]
            /\ IF /\ ~handle_tool_errors
                  /\ \E k \in 1..Len(calls) : RunTool(calls[k], outs[k]).raised
               THEN /\ node' = "failed"
                    /\ UNCHANGED <<messages, nextId>>
               ELSE /\ messages' = add_messages(messages, ToolNode(messages, outs, nextId))
                    /\ nextId' = nextId + Len(calls)
                    /\ node' = "should_continue"
            /\ issue_info' \in DraftsAfter(calls)
    /\ UNCHANGED <<turns, handle_tool_errors, execVars, runtimeVars>>

\* A conditional edge whose "continue" branch leads back to tools.
ShouldContinueEdgeToTools ==
    /\ node = "should_continue"
    /\ node' = IF should_continue(messages) = "end" THEN "END" ELSE "tools"
    /\ UNCHANGED <<messages, issue_info, nextId, tool_runs, turns,
                   handle_tool_errors, execVars, runtimeVars>>

\* The conditional edge after tools: "continue" -> our_agent, "end" -> END.
ShouldContinueEdge ==
    /\ node = "should_continue"
    /\ node' = IF should_continue(messages) = "end" THEN "END" ELSE "our_agent"
    /\ UNCHANGED <<messages, issue_info, nextId, tool_runs, turns,
                   handle_tool_errors, execVars, runtimeVars>>

AgentNext == ModelCall \/ ModelCallFails \/ Tools \/ ShouldContinueEdge

AgentSpec == AgentInit /\ [][AgentNext]_vars

\* ------------------------------------------------------- nodes.py: NodeInput
\* A raw argument value: absent, a str or an int.
RawMissing == [t |-> "missing", s |-> "", n |-> 0]
RawStr(s) == [t |-> "str", s |-> s, n |-> 0]
RawInt(n) == [t |-> "int", s |-> "", n |-> n]

\* Field defaults of NodeInput.
DefaultApiUrl == "https://api.example.com/data"
DefaultMaxRetries == 3

IsSpace(c) == c \in {" ", "\t", "\n"}

RECURSIVE lstrip(_)
lstrip(s) ==
    IF Len(s) > 0 /\ IsSpace(SubSeq(s, 1, 1)) THEN lstrip(SubSeq(s, 2, Len(s))) ELSE s

RECURSIVE rstrip(_)
rstrip(s) ==
    IF Len(s) > 0 /\ IsSpace(SubSeq(s, Len(s), Len(s)))
    THEN rstrip(SubSeq(s, 1, Len(s) - 1)) ELSE s

\* str.strip()
strip(s) == rstrip(lstrip(s))

DigitChars == "0123456789"
IsDigit(c) == \E i \in 1..10 : SubSeq(DigitChars, i, i) = c
DigitValue(c) == (CHOOSE i \in 1..10 : SubSeq(DigitChars, i, i) = c) - 1

\* Whether the int field accepts the text (lax mode reads a decimal numeral).
IsIntText(s) ==
    LET body == IF Len(s) > 0 /\ SubSeq(s, 1, 1) = "-" THEN SubSeq(s, 2, Len(s)) ELSE s
    IN Len(body) > 0 /\ \A i \in 1..Len(body) : IsDigit(SubSeq(body, i, i))

RECURSIVE NumeralValue(_)
NumeralValue(s) ==
    IF Len(s) = 0 THEN 0
    ELSE 10 * NumeralValue(SubSeq(s, 1, Len(s) - 1)) + DigitValue(SubSeq(s, Len(s), Len(s)))

IntOfText(s) ==
    IF SubSeq(s, 1, 1) = "-" THEN 0 - NumeralValue(SubSeq(s, 2, Len(s)))
    ELSE NumeralValue(s)

\* A validate_query that tests the raw value, without strip().
validate_query_no_strip(v) ==
    IF Len(v) = 0 THEN [ok |-> FALSE, error |-> "Query cannot be empty"]
    ELSE [ok |-> TRUE, error |-> ""]

\* validate_query: a query that is empty once stripped is rejected; the value
\* itself is returned unstripped.
validate_query(v) ==
    IF Len(strip(v)) = 0 THEN [ok |-> FALSE, error |-> "Query cannot be empty"]
    ELSE [ok |-> TRUE, error |-> ""]

NodeInputQuery(raw) ==
    IF raw.t = "missing" THEN [ok |-> FALSE, error |-> "Field required"]
    ELSE IF raw.t # "str" THEN [ok |-> FALSE, error |-> "Input should be a valid string"]
    ELSE validate_query(raw.s)

\* An api_url field that adds a trailing "/" to every given URL.
NodeInputApiUrlSlash(raw) ==
    IF raw.t = "missing" THEN [ok |-> TRUE, error |-> "", value |-> DefaultApiUrl]
    ELSE IF raw.t # "str"
    THEN [ok |-> FALSE, error |-> "Input should be a valid string", value |-> ""]
    ELSE [ok |-> TRUE, error |-> "", value |-> raw.s \o "/"]

NodeInputApiUrl(raw) ==
    IF raw.t = "missing" THEN [ok |-> TRUE, error |-> "", value |-> DefaultApiUrl]
    ELSE IF raw.t # "str"
    THEN [ok |-> FALSE, error |-> "Input should be a valid string", value |-> ""]
    ELSE [ok |-> TRUE, error |-> "", value |-> raw.s]

NodeInputMaxRetries(raw) ==
    IF raw.t = "missing" THEN [ok |-> TRUE, error |-> "", value |-> DefaultMaxRetries]
    ELSE IF raw.t = "int" THEN [ok |-> TRUE, error |-> "", value |-> raw.n]
    ELSE IF IsIntText(raw.s) THEN [ok |-> TRUE, error |-> "", value |-> IntOfText(raw.s)]
    ELSE [ok |-> FALSE, error |-> "Input should be a valid integer", value |-> 0]

\* NodeInput(**input): the validated, coerced fields, or the first error.
NodeInput(raw) ==
    LET q == NodeInputQuery(raw.query)
        u == NodeInputApiUrl(raw.api_url)
        m == NodeInputMaxRetries(raw.max_retries)
    IN IF ~q.ok THEN [ok |-> FALSE, error |-> q.error]
       ELSE IF ~u.ok THEN [ok |-> FALSE, error |-> u.error]
       ELSE IF ~m.ok THEN [ok |-> FALSE, error |-> m.error]
       ELSE [ok |-> TRUE, error |-> "",
             value |-> [query |-> raw.query.s, api_url |-> u.value,
                        max_retries |-> m.value]]

\* parsed_input.model_dump(): the validated fields as a plain dict.
model_dump(p) ==
    [query |-> RawStr(p.query), api_url |-> RawStr(p.api_url),
     max_retries |-> RawInt(p.max_retries)]

\* ------------------------------------------------- nodes.py: the operation
\* What the remote endpoint answers to one GET.
RemoteAnswers == {"200 OK", "HTTP 500"}
ResponseJson == "{id: 1}"

\* A data_extractor_tool that turns a failure into a returned value, the
\* way create_jira_ticket does.
data_extractor_tool_soft(input_data, remote) ==
    IF remote = "200 OK"
    THEN [kind |-> "value", value |-> [data |-> ResponseJson], remote |-> remote]
    ELSE [kind |-> "value", value |-> [data |-> "API call failed: " \o remote],
          remote |-> remote]

\* data_extractor_tool: the JSON body wrapped in {"data": ...}; a
\* RequestException is logged and raised again.
data_extractor_tool(input_data, remote) ==
    IF remote = "200 OK"
    THEN [kind |-> "value", value |-> [data |-> ResponseJson], remote |-> remote]
    ELSE [kind |-> "exc", exc |-> [kind |-> "HTTPError", text |-> remote],
          remote |-> remote]

\* error_handler: with retries left, wait and signal retry; with none, raise
\* the mapped error.
\* An error handler that gives up when one retry is left.
error_handler_last_gives_up(error, retries_left) ==
    IF retries_left > 1
    THEN [raised |-> FALSE, slept |-> 1, text |-> ""]
    ELSE [raised |-> TRUE, slept |-> 0, text |-> "Mapped error: " \o error.text]

error_handler(error, retries_left) ==
    IF retries_left > 0
    THEN [raised |-> FALSE, slept |-> 1, text |-> ""]
    ELSE [raised |-> TRUE, slept |-> 0, text |-> "Mapped error: " \o error.text]

\* An off-by-one loop condition.
WhileRetriesInclusive(r) == r >= 0

\* The condition of invoke's loop.
WhileRetries(r) == r > 0

\* The exception raised once the loop is left.
MaxRetriesExceeded ==
    [kind |-> "raised", type |-> "LangChainException",
     text |-> "Max retries exceeded", cause |-> [kind |-> "none"]]

\* ThreadPoolExecutor.__exit__ is shutdown(wait=True): the with block is left
\* only once the worker has finished.
\* A with block that is left without waiting for the worker.
ShutdownNoWait(w) == w \in {"running", "done"}

ShutdownReturns(w) == w = "done"

\* ------------------------------------------ nodes.py: MyNodeAdapter.invoke
RawQueries == {RawMissing, RawStr(""), RawStr("  "), RawStr("q"), RawStr(" q "), RawInt(7)}
RawApiUrls == {RawMissing, RawStr("https://api.test/todos"), RawInt(5)}
RawMaxRetries == {RawMissing, RawStr("2"), RawStr("x")} \cup {RawInt(n) : n \in -1..MaxBudget}
RawInputs == [query : RawQueries, api_url : RawApiUrls, max_retries : RawMaxRetries]

\* Conversation variables at rest, while the adapter is checked.
AgentIdle ==
    /\ messages = <<>>
    /\ node = "idle"
    /\ issue_info = ""
    /\ nextId = 1
    /\ tool_runs = <<>>
    /\ turns = 0
    /\ handle_tool_errors = TRUE

AdapterInit ==
    /\ input \in RawInputs
    /\ epc = "validate"
    /\ parsed_input = [query |-> "", api_url |-> "", max_retries |-> 0]
    /\ retries = 0
    /\ partials = <<>>
    /\ worker = "none"
    /\ workerResult = [kind |-> "none", remote |-> "none"]
    /\ pending = [kind |-> "none"]
    /\ attempts = 0
    /\ outcomes = <<>>
    /\ backoffs = 0
    /\ lastError = [kind |-> "none"]
    /\ result = [kind |-> "none"]
    /\ AgentIdle
    /\ RuntimeIdle

\* invoke, lines 87-94: validate and coerce, or raise ValueError at once.
Validate ==
    /\ epc = "validate"
    /\ LET p == NodeInput(input)
       IN IF p.ok
          THEN /\ parsed_input' = p.value
               /\ retries' = p.value.max_retries
               /\ epc' = "while"
               /\ UNCHANGED result
          ELSE /\ result' = [kind |-> "raised", type |-> "ValueError",
                             text |-> "Param validation failed: " \o p.error,
                             cause |-> [kind |-> "none"]]
               /\ epc' = "raised"
               /\ UNCHANGED <<parsed_input, retries>>
    /\ UNCHANGED <<input, partials, worker, workerResult, pending, attempts,
                   outcomes, backoffs, lastError, agentVars, runtimeVars>>

\* The loop test holds: sandbox_execute submits the operation to its worker
\* and waits for the future with the deadline.
StartAttempt ==
    /\ epc = "while"
    /\ WhileRetries(retries)
    /\ worker' = "running"
    /\ attempts' = attempts + 1
    /\ epc' = "future_result"
    /\ UNCHANGED <<input, parsed_input, retries, partials, workerResult, pending,
                   outcomes, backoffs, lastError, result, agentVars, runtimeVars>>

\* The loop test fails: "Max retries exceeded".
Exhausted ==
    /\ epc = "while"
    /\ ~WhileRetries(retries)
    /\ result' = MaxRetriesExceeded
    /\ epc' = "raised"
    /\ UNCHANGED <<input, parsed_input, retries, partials, worker, workerResult,
                   pending, attempts, outcomes, backoffs, lastError, agentVars, runtimeVars>>

\* The worker thread: data_extractor_tool ends, whatever the caller is doing.
WorkerFinish ==
    /\ worker = "running"
    /\ \E remote \in RemoteAnswers :
         workerResult' = data_extractor_tool(parsed_input, remote)
    /\ worker' = "done"
    /\ UNCHANGED <<input, epc, parsed_input, retries, partials, pending, attempts,
                   outcomes, backoffs, lastError, result, agentVars, runtimeVars>>

\* future.result(timeout) ends in time: the value, or the operation's
\* exception raised again by "except Exception as e: raise e".
FutureResult ==
    /\ epc = "future_result"
    /\ worker = "done"
    /\ pending' = [kind |-> workerResult.kind,
                   value |-> IF workerResult.kind = "value"
                             THEN workerResult.value ELSE [data |-> ""],
                   exc |-> IF workerResult.kind = "exc"
                           THEN workerResult.exc ELSE [kind |-> "none", text |-> ""]]
    /\ epc' = "shutdown"
    /\ UNCHANGED <<input, parsed_input, retries, partials, worker, workerResult,
                   attempts, outcomes, backoffs, lastError, result, agentVars, runtimeVars>>

\* future.result(timeout) times out while the operation still runs.
Deadline ==
    /\ epc = "future_result"
    /\ worker = "running"
    /\ pending' = [kind |-> "exc", value |-> [data |-> ""],
                   exc |-> [kind |-> "TimeoutError",
                            text |-> "Execution timed out (sandbox limit)"]]
    /\ epc' = "shutdown"
    /\ UNCHANGED <<input, parsed_input, retries, partials, worker, workerResult,
                   attempts, outcomes, backoffs, lastError, result, agentVars, runtimeVars>>

\* The with block of sandbox_execute is left and invoke gets the value
\* (lines 101-102: one partial, NodeOutput returned) or the exception
\* (line 103: bound to e).
SandboxExit ==
    /\ epc = "shutdown"
    /\ ShutdownReturns(worker)
    /\ worker' = "none"
    /\ outcomes' = Append(outcomes,
                          [remote |-> workerResult.remote,
                           seen |-> IF pending.kind = "value" THEN "ok"
                                    ELSE pending.exc.kind])
    /\ IF pending.kind = "value"
       THEN /\ partials' = Append(partials, "Processing complete")
            /\ result' = [kind |-> "returned",
                          output |-> [result |-> pending.value,
                                      partials |-> partials']]
            /\ epc' = "returned"
            /\ UNCHANGED lastError
       ELSE /\ lastError' = pending.exc
            /\ epc' = "except"
            /\ UNCHANGED <<partials, result>>
    /\ UNCHANGED <<input, parsed_input, retries, workerResult, pending, attempts,
                   backoffs, agentVars, runtimeVars>>

\* An except clause that also records a partial for the failed attempt.
ErrorHandlerWithPartial ==
    /\ epc = "except"
    /\ LET h == error_handler(lastError, retries)
       IN IF h.raised
          THEN /\ result' = [kind |-> "raised", type |-> "LangChainException",
                             text |-> h.text, cause |-> [kind |-> "none"]]
               /\ epc' = "raised"
               /\ UNCHANGED <<retries, backoffs, partials>>
          ELSE /\ backoffs' = backoffs + h.slept
               /\ retries' = retries - 1
               /\ partials' = Append(partials, "Retrying")
               /\ epc' = "while"
               /\ UNCHANGED result
    /\ UNCHANGED <<input, parsed_input, worker, workerResult, pending,
                   attempts, outcomes, lastError, agentVars, runtimeVars>>

\* Lines 104-105: error_handler(e, retries), then retries -= 1.
ErrorHandler ==
    /\ epc = "except"
    /\ LET h == error_handler(lastError, retries)
       IN IF h.raised
          THEN /\ result' = [kind |-> "raised", type |-> "LangChainException",
                             text |-> h.text, cause |-> [kind |-> "none"]]
               /\ epc' = "raised"
               /\ UNCHANGED <<retries, backoffs>>
          ELSE /\ backoffs' = backoffs + h.slept
               /\ retries' = retries - 1
               /\ epc' = "while"
               /\ UNCHANGED result
    /\ UNCHANGED <<input, parsed_input, partials, worker, workerResult, pending,
                   attempts, outcomes, lastError, agentVars, runtimeVars>>

AdapterNext ==
    \/ Validate
    \/ StartAttempt
    \/ Exhausted
    \/ WorkerFinish
    \/ FutureResult
    \/ Deadline
    \/ SandboxExit
    \/ ErrorHandler

AdapterSpec == AdapterInit /\ [][AdapterNext]_vars

\* --------------------------------------------------------------- runtime.py
\* Python's truth value of an Optional[str]: None and "" are false.
Truthy(v) == v.t = "str" /\ v.s # ""

RuntimeQueries == {"Extract and analyze this: sample data", ""}

\* What a node may write to a channel; Keep stands for a key the node's
\* return value does not have.
Keep == [t |-> "keep"]
NodeOutputs == {RawStr("extracted"), RawStr("analysis")}
NodeErrors == {None, RawStr(""), RawStr("boom")}
NodeMetadata == {RawStr("meta")}
NodeUpdates ==
    [output : NodeOutputs \cup {Keep}, error : NodeErrors \cup {Keep},
     node_metadata : NodeMetadata \cup {Keep}]

Channel(old, new) == IF new = Keep THEN old ELSE new

\* A SpecialistNode as the graph sees it: called with the state, it returns
\* a partial update that the graph writes to the state's channels.
SpecialistNode(state, upd) ==
    [input |-> state.input,
     output |-> Channel(state.output, upd.output),
     node_metadata |-> Channel(state.node_metadata, upd.node_metadata),
     error |-> Channel(state.error, upd.error)]

\* error_handler of runtime.py: prints a truthy error, returns the state.
runtime_error_handler(state) == state

\* A conditional edge that tests the error against None only.
analyzer_route_is_none(state) ==
    IF state.error = None THEN "END" ELSE "error_handler"

\* The lambda of the conditional edge after analyzer.
analyzer_route(state) ==
    IF ~Truthy(state.error) THEN "END" ELSE "error_handler"

\* main.py: app.stream({"input": {...}}) on the compiled graph, entry point
\* extractor; the other channels are unset, state.get gives None for them.
RuntimeInit ==
    /\ \E q \in RuntimeQueries :
         rstate = [input |-> [query |-> q], output |-> None,
                   node_metadata |-> None, error |-> None]
    /\ rnode = "extractor"
    /\ executed = <<>>
    /\ AgentIdle
    /\ AdapterIdle

\* Node extractor, then the edge extractor -> analyzer.
Extractor ==
    /\ rnode = "extractor"
    /\ \E upd \in NodeUpdates : rstate' = SpecialistNode(rstate, upd)
    /\ executed' = Append(executed, "extractor")
    /\ rnode' = "analyzer"
    /\ UNCHANGED <<agentVars, execVars>>

\* Node analyzer; the conditional edge is taken next.
Analyzer ==
    /\ rnode = "analyzer"
    /\ \E upd \in NodeUpdates : rstate' = SpecialistNode(rstate, upd)
    /\ executed' = Append(executed, "analyzer")
    /\ rnode' = "analyzer_route"
    /\ UNCHANGED <<agentVars, execVars>>

\* The conditional edge after analyzer: END or error_handler.
AnalyzerRoute ==
    /\ rnode = "analyzer_route"
    /\ rnode' = analyzer_route(rstate)
    /\ UNCHANGED <<rstate, executed, agentVars, execVars>>

\* Node error_handler, then the edge error_handler -> END.
RuntimeErrorHandler ==
    /\ rnode = "error_handler"
    /\ rstate' = runtime_error_handler(rstate)
    /\ executed' = Append(executed, "error_handler")
    /\ rnode' = "END"
    /\ UNCHANGED <<agentVars, execVars>>

RuntimeNext ==
    \/ Extractor
    \/ Analyzer
    \/ AnalyzerRoute
    \/ RuntimeErrorHandler

RuntimeSpec == RuntimeInit /\ [][RuntimeNext]_vars

\* ==================================================================== claims
\* The completion signature: a ToolMessage whose content holds both keywords,
\* whatever their case.
MatchesSignature(m) ==
    /\ m.type = "tool"
    /\ Contains(lower(m.content), "create")
    /\ Contains(lower(m.content), "issue")

EndsInMatchingToolResult(msgs) == Len(msgs) > 0 /\ MatchesSignature(Last(msgs))

\* C1: when the history ends in a ToolResult whose content holds "create"
\* and "issue" in any case, the check after the tools step returns "end" and
\* the loop goes to END on that check, with no further model call.
C1_EndsOnCompletionSignature ==
    [][(node = "should_continue" /\ EndsInMatchingToolResult(messages))
        => /\ should_continue(messages) = "end"
           /\ node' = "END"
           /\ messages' = messages
           /\ turns' = turns]_vars

C1_Witness == node = "END" /\ EndsInMatchingToolResult(messages)

\* The newest message is a model response without tool requests.
FinalAnswer(msgs) ==
    Len(msgs) > 0 /\ Last(msgs).type = "ai" /\ Len(Last(msgs).tool_calls) = 0

\* C2 as claimed: once the model has answered without tool requests the loop
\* ends: no further model call is made and the loop never returns to the
\* model step.
C2_FinalAnswerTerminates ==
    [][FinalAnswer(messages)
        => (turns' = turns /\ messages' = messages /\ node' # "our_agent")]_vars

\* C2 as amended: after a model response without tool requests the tools
\* step appends nothing and the check returns "continue": the loop goes back
\* to the model step instead of ending.
C2_FinalAnswerContinues ==
    [][(FinalAnswer(messages) /\ node \in {"tools", "should_continue"})
        => /\ messages' = messages
           /\ should_continue(messages) = "continue"
           /\ node' = (IF node = "tools" THEN "should_continue" ELSE "our_agent")]_vars

C2_Witness ==
    /\ turns = 2
    /\ messages[2].type = "ai"
    /\ Len(messages[2].tool_calls) = 0
    /\ Len(messages) >= 4

\* The positions of the tool results that answer the call id.
ToolResultsFor(msgs, id) ==
    {j \in 1..Len(msgs) : msgs[j].type = "tool" /\ msgs[j].tool_call_id = id}

\* Every tool request of the model response at position i has exactly one
\* result, and the results follow the response in request order.
Answered(msgs, i) ==
    \A k \in 1..Len(msgs[i].tool_calls) :
        /\ ToolResultsFor(msgs, msgs[i].tool_calls[k].id) = {i + k}
        /\ i + k <= Len(msgs)

\* C3: once the tools step is done every tool request has exactly one
\* ToolResult with its call id, the results of a turn stand in request order,
\* no request ever has two results, and END is not reached with a request
\* unanswered.
C3_OneResultPerRequest ==
    /\ node \in {"should_continue", "our_agent", "END"}
         => \A i \in 1..Len(messages) : messages[i].type = "ai" => Answered(messages, i)
    /\ \A i \in 1..Len(messages) : \A k \in 1..Len(messages[i].tool_calls) :
           Cardinality(ToolResultsFor(messages, messages[i].tool_calls[k].id)) <= 1

C3_Witness ==
    /\ node = "END"
    /\ \E i \in 1..Len(messages) : Len(messages[i].tool_calls) >= 2
    /\ \E i \in 1..Len(messages) :
           messages[i].type = "ai" /\ Len(messages[i].tool_calls) = 0

\* invoke got past validation.
Validated ==
    /\ epc \notin {"idle", "validate"}
    /\ (result.kind = "raised" => result.type # "ValueError")

Budget == parsed_input.max_retries

AllAttemptsFailed == \A k \in 1..Len(outcomes) : outcomes[k].seen # "ok"

\* C4: with max_retries = N >= 0 and an operation that fails or times out on
\* every attempt, invoke makes exactly N attempts and then raises "Max
\* retries exceeded"; it never makes more than N attempts and returns no
\* NodeOutput.
C4_ExactlyNAttempts ==
    (Validated /\ Budget >= 0)
        => /\ attempts <= Budget
           /\ (epc \in {"returned", "raised"} /\ AllAttemptsFailed)
                 => /\ epc = "raised"
                    /\ result = MaxRetriesExceeded
                    /\ attempts = Budget
                    /\ Len(outcomes) = Budget

C4_Witness ==
    /\ epc = "raised"
    /\ result = MaxRetriesExceeded
    /\ Budget >= 2
    /\ attempts = Budget
    /\ \E k \in 1..Len(outcomes) : outcomes[k].seen = "TimeoutError"
    /\ \E k \in 1..Len(outcomes) : outcomes[k].seen = "HTTPError"

\* Raw arguments the parameter schema rejects: no query, a query that is no
\* string or holds only white space, an api_url that is no string, a
\* max_retries that is neither an integer nor a numeral.
Blank(s) == \A i \in 1..Len(s) : SubSeq(s, i, i) \in {" ", "\t", "\n"}

InvalidArguments(raw) ==
    \/ raw.query.t # "str"
    \/ Blank(raw.query.s)
    \/ raw.api_url.t = "int"
    \/ (raw.max_retries.t = "str" /\ ~IsIntText(raw.max_retries.s))

\* C5: when the raw arguments fail validation invoke raises the
\* invalid-arguments error at once: the operation is never attempted, no
\* backoff wait is made and no retry budget is used.
C5_InvalidArgumentsImmediate ==
    (epc \notin {"idle", "validate"} /\ InvalidArguments(input))
        => /\ epc = "raised"
           /\ result.type = "ValueError"
           /\ attempts = 0
           /\ backoffs = 0
           /\ retries = 0
           /\ outcomes = <<>>
           /\ worker = "none"

C5_Witness ==
    /\ epc = "raised"
    /\ result.type = "ValueError"
    /\ input.query = RawStr("  ")
    /\ input.max_retries = RawInt(2)

\* C6 as claimed: the error raised once the budget is used up carries the
\* last error of the operation (as its cause or in its text).
C6_ExhaustedCarriesLastError ==
    (epc = "raised" /\ result.type = "LangChainException" /\ attempts > 0)
        => \/ result.cause = lastError
           \/ Contains(result.text, lastError.text)

\* C7 as claimed: create_jira_ticket never raises, and for a remote
\* exception (on connecting as on creating) it returns text holding the
\* exception text.
C7_TicketToolNeverRaises ==
    \A k \in 1..Len(tool_runs) :
        tool_runs[k].name = "create_jira_ticket"
            => /\ ~tool_runs[k].run.raised
               /\ (tool_runs[k].outcome = "connect_error"
                     => Contains(tool_runs[k].run.text, ConnectErrorText))
               /\ (tool_runs[k].outcome = "create_error"
                     => Contains(tool_runs[k].run.text, CreateErrorText))

AllRemoteFailed == \A k \in 1..Len(outcomes) : outcomes[k].remote # "200 OK"

C9_TimeoutDoesNotWaitForWorker ==
    (/\ epc = "shutdown"
     /\ pending.kind = "exc"
     /\ pending.exc.kind = "TimeoutError"
     /\ worker = "running")
        => ENABLED SandboxExit

IsPrefix(a, b) == Len(a) <= Len(b) /\ SubSeq(b, 1, Len(a)) = a

NoDuplicates(msgs) ==
    \A i, j \in 1..Len(msgs) : i # j => msgs[i] # msgs[j] /\ msgs[i].id # msgs[j].id

\* C10: the history is append-only: every step leaves the previous history
\* as a prefix of the new one, and no message occurs twice.
C10_AppendOnly ==
    [][IsPrefix(messages, messages') /\ NoDuplicates(messages')]_vars

C10_Witness ==
    /\ turns = 2
    /\ node = "should_continue"
    /\ Len(messages) >= 6


\* C11: when the model call fails the run stops as failed: a step out of the
\* model node that is no completed model call ends failed with the history,
\* the draft and the tool runs as they were, and after a failure no node
\* runs: no tool is dispatched, the model is not called again and the
\* history stays as it was.
C11_ModelFailureStopsRun ==
    [][/\ (node = "our_agent" /\ node' # "tools")
            => /\ node' = "failed"
               /\ messages' = messages
               /\ tool_runs' = tool_runs
               /\ issue_info' = issue_info
       /\ node = "failed"
            => /\ node' = "failed"
               /\ messages' = messages
               /\ tool_runs' = tool_runs
               /\ turns' = turns]_vars

C11_Witness ==
    /\ node = "failed"
    /\ turns = 2
    /\ Len(messages) >= 3
    /\ Last(messages).type = "tool"

\* C12: the model step and the tool step alternate strictly, the model step
\* first: one node is active at a time, the model step is followed by the
\* tool step, the tool step by its check, the check by the model step or by
\* END, and END is entered only from the check that follows a tool step.
C12_StrictAlternation ==
    /\ node = "our_agent"
    /\ [][/\ node = "our_agent" => node' \in {"tools", "failed"}
          /\ node = "tools" => node' \in {"should_continue", "failed"}
          /\ node = "should_continue" => node' \in {"our_agent", "END"}
          /\ node' = "END" => node = "should_continue"
          /\ node \in {"END", "failed"} => node' = node
          /\ turns' # turns => (node = "our_agent" /\ turns' = turns + 1)
          /\ tool_runs' # tool_runs => node = "tools"]_vars

C12_Witness ==
    /\ node = "END"
    /\ turns = 2
    /\ Len(tool_runs) >= 1

ToolPositions(msgs) == {j \in 1..Len(msgs) : msgs[j].type = "tool"}

\* The most recent ToolResult of the history matches the signature.
MostRecentToolResultMatches(msgs) ==
    /\ ToolPositions(msgs) # {}
    /\ MatchesSignature(msgs[CHOOSE j \in ToolPositions(msgs) :
                                 \A l \in ToolPositions(msgs) : l <= j])

SomeToolResultMatches(msgs) ==
    \E j \in 1..Len(msgs) : MatchesSignature(msgs[j])

\* C13 as claimed: after a tool step the loop ends if and only if the most
\* recent ToolResult matches the signature; an older matching ToolResult
\* does not end it.
C13_OnlyMostRecentToolResult ==
    [][node = "should_continue"
        => (node' = "END" <=> MostRecentToolResultMatches(messages))]_vars

\* C13 as amended: after a tool step the loop ends if and only if some
\* ToolResult of the history matches the signature, the most recent one or
\* an older one (such as the first of the two results of one turn).
C13_AnyToolResult ==
    [][node = "should_continue"
        => /\ node' = "END" <=> SomeToolResultMatches(messages)
           /\ should_continue(messages) = "end" <=> SomeToolResultMatches(messages)]_vars

C13_Witness ==
    /\ node = "END"
    /\ Last(messages).type = "tool"
    /\ ~MatchesSignature(Last(messages))
    /\ MatchesSignature(messages[Len(messages) - 1])

\* The history holds the result of a create_jira_ticket request.
TicketResultInHistory(msgs) ==
    \E i \in 1..Len(msgs) : \E k \in 1..Len(msgs[i].tool_calls) :
        /\ msgs[i].tool_calls[k].name = "create_jira_ticket"
        /\ ToolResultsFor(msgs, msgs[i].tool_calls[k].id) # {}

\* C16 as claimed: END is reached only with a create_jira_ticket result in
\* the history: the results of the update tool never end the conversation.
C16_EndOnlyAfterTicketResult ==
    node = "END" => TicketResultInHistory(messages)

\* What create_jira_ticket returned in the latest tools step.
TicketReturns ==
    {k \in 1..Len(tool_runs) :
        tool_runs[k].name = "create_jira_ticket" /\ ~tool_runs[k].run.raised}

\* C17: every value create_jira_ticket returns, the failure text as well as
\* the success text, satisfies the completion signature, and the check that
\* follows a tools step in which create_jira_ticket returned ends the loop,
\* whether the ticket was created or not.
C17_TicketReturnEndsLoop ==
    [][/\ \A k \in TicketReturns :
              MatchesSignature(ToolMessage(0, tool_runs[k].run.text, 0))
       /\ (node = "should_continue" /\ TicketReturns # {})
              => (should_continue(messages) = "end" /\ node' = "END")]_vars

C17_Witness ==
    /\ node = "END"
    /\ \E k \in TicketReturns : tool_runs[k].outcome = "create_error"
    /\ \A k \in TicketReturns : tool_runs[k].outcome # "created"

\* C14: validation is idempotent: the dumped fields of a validated input are
\* accepted again and validate to the same values as the first validation.
C14_ValidationIdempotent ==
    Validated
        => /\ NodeInput(input).ok
           /\ parsed_input = NodeInput(input).value
           /\ NodeInput(model_dump(NodeInput(input).value)).ok
           /\ NodeInput(model_dump(NodeInput(input).value)).value = NodeInput(input).value

C14_Witness ==
    /\ Validated
    /\ input.max_retries = RawStr("2")
    /\ input.api_url = RawMissing
    /\ input.query = RawStr(" q ")
    /\ parsed_input = [query |-> " q ", api_url |-> DefaultApiUrl, max_retries |-> 2]

\* C15: once an attempt succeeds invoke returns at once: the NodeOutput
\* wraps the result of that attempt with exactly one progress entry, however
\* many attempts failed before it, the attempt is within the budget, and no
\* attempt follows it.
C15_SuccessReturnsAtOnce ==
    /\ (Len(outcomes) > 0 /\ Last(outcomes).seen = "ok")
         => /\ epc = "returned"
            /\ result.kind = "returned"
            /\ result.output.result = workerResult.value
            /\ workerResult.kind = "value"
            /\ result.output.partials = <<"Processing complete">>
            /\ \A k \in 1..(Len(outcomes) - 1) : outcomes[k].seen # "ok"
            /\ attempts = Len(outcomes)
            /\ attempts <= Budget
            /\ worker = "none"
    /\ epc = "returned" => (Len(outcomes) > 0 /\ Last(outcomes).seen = "ok")

C15_Witness ==
    /\ epc = "returned"
    /\ Len(outcomes) >= 3
    /\ outcomes[1].seen = "TimeoutError"
    /\ outcomes[2].seen = "HTTPError"

\* C18: at most one execution of the operation is in flight during invoke:
\* a worker that runs stays the only one until it has ended, every attempt
\* starts with no worker running, also after a timeout, and the attempts
\* started are counted one by one.
C18_OneExecutionInFlight ==
    [][/\ worker = "running" => worker' \in {"running", "done"}
       /\ attempts' # attempts
            => /\ worker = "none"
               /\ worker' = "running"
               /\ attempts' = attempts + 1
       /\ (worker # "running" /\ worker' = "running") => attempts' = attempts + 1]_vars

C18_Witness ==
    /\ worker = "running"
    /\ attempts >= 2
    /\ outcomes[attempts - 1].seen = "TimeoutError"

\* C19: error_handler is called with retries_left >= 1 only, so it never
\* raises: every failed attempt is followed by one backoff wait, and the
\* retry loop ends in failure with "Max retries exceeded" only.
C19_HandlerNeverRaises ==
    /\ epc = "except"
         => /\ retries >= 1
            /\ ~error_handler(lastError, retries).raised
            /\ backoffs = attempts - 1
    /\ (epc \in {"while", "raised"} /\ Validated) => backoffs = attempts
    /\ (epc = "raised" /\ Validated)
         => /\ result = MaxRetriesExceeded
            /\ Len(outcomes) = attempts
            /\ \A k \in 1..Len(outcomes) : outcomes[k].seen # "ok"

C19_Witness ==
    /\ epc = "raised"
    /\ Validated
    /\ Budget >= 2
    /\ backoffs = Budget
    /\ result.text = "Max retries exceeded"

\* The nodes run so far fit the graph's position, and error_handler has run
\* exactly when the error left by analyzer is truthy.
RunShape ==
    /\ rnode = "extractor" => executed = <<>>
    /\ rnode = "analyzer" => executed = <<"extractor">>
    /\ rnode = "analyzer_route" => executed = <<"extractor", "analyzer">>
    /\ rnode = "error_handler"
         => (executed = <<"extractor", "analyzer">> /\ Truthy(rstate.error))
    /\ rnode = "END"
         => executed = IF Truthy(rstate.error)
                       THEN <<"extractor", "analyzer", "error_handler">>
                       ELSE <<"extractor", "analyzer">>

====
